---- MODULE Spec2Model ----
(***************************************************************************)
(* A state-machine model of src/main.py: the strategy dispatch of main,    *)
(* the four temperature designers, the simulated-annealing optimizer, the  *)
(* judge channel and the four _predict decoders.                            *)
(***************************************************************************)
EXTENDS Integers, Sequences, FiniteSets, TLC

VARIABLES
  L, N, S, landing_pos,      \* the episode's input (main, lines 411-416)
  truth, judge,              \* the judge's hidden mapping and its reply policy
  rng, rp,                   \* the stream random.gauss draws from, and its position
  pc,                        \* the program's position
  solver, dAround, sAround, decoder, measure_count,
  temperature, prohibit_pos, idx, center_distance, center_temps, avg, num, lo, hi,
  caller, rand, sched, in_temperature, best_temperature, best_cost,
  new_temperature, T, todo, nprop,
  distance, vector, i_in, cur, part, rep, acc, mvec,
  visited_index, estimate, cost_matrix,
  round_log,                 \* the candidates queried so far in the current greedy round
  pending, chan

cfgVars == <<L, N, S, landing_pos, truth, judge, rng>>
selVars == <<solver, dAround, sAround, decoder, measure_count>>
desVars == <<temperature, prohibit_pos, idx, center_distance, center_temps, avg, num,
             lo, hi, rp>>
optVars == <<caller, rand, sched, in_temperature, best_temperature, best_cost,
             new_temperature, T, todo, nprop>>
decVars == <<distance, vector, i_in, cur, part, rep, acc, mvec,
             visited_index, estimate, cost_matrix, round_log>>
chanVars == <<pending, chan>>
vars == <<cfgVars, selVars, desVars, optVars, decVars, chanVars, pc>>

----------------------------------------------------------------------------
(* Bounds of the model. *)

MaxS == 900            \* SpecSelect draws S from 0..MaxS
MaxNSel == 100         \* SpecSelect draws N from 1..MaxNSel
MaxN == 3              \* the small episodes have 1..MaxN sites
MaxNFull == 2          \* as MaxN, for the episodes of the full two-hotspot matching
SmallL == 3            \* side of the small episodes' grid
BigL == 23             \* side of the grid of the crowded single-feature design
GreedyL == 9           \* side of the grid of the large two-hotspot episode
FullL == 10            \* side of the grid whose every cell is a site
MaxPerturb == 1        \* cap on random.randint(1, 20), the perturbations of a proposal
MaxProposals == 1      \* cap on the proposals of one optimize call

----------------------------------------------------------------------------
(* Program constants. *)

TempMax == 1000        \* the upper clamp of a cell
PerturbMax == 20       \* random.randint(1, 20)
QueryBudget == 10000   \* AroundSolver._predict: 10000 // N // Around**2
GreedyMaxN == 71       \* SingularSolver2._predict: N <= 71 takes the full matching
TScale == 10           \* temperatures T are held in tenths (T_end = 0.1 is 1)
ExpUnderflow == 745    \* math.exp(-x) is 0.0 for x > 745: a worse field is then never accepted

----------------------------------------------------------------------------
(* Helpers. *)

Cells(l) == (0 .. l - 1) \X (0 .. l - 1)

Min(a, b) == IF a <= b THEN a ELSE b
Max(a, b) == IF a >= b THEN a ELSE b
Abs(a) == IF a >= 0 THEN a ELSE -a

\* max(0, min(1000, v)), lines 98, 323, 340, 342
Clamp(v) == Max(0, Min(TempMax, v))

Range(s) == {s[i] : i \in 1 .. Len(s)}

RECURSIVE SeqSum(_)
SeqSum(s) == IF s = <<>> THEN 0 ELSE s[1] + SeqSum(Tail(s))

\* The constant field of side l.
ConstField(l, v) == [c \in Cells(l) |-> v]

\* _calc_placement_cost, lines 109-116: the squared difference of every cell with
\* its toroidal down neighbour and with its toroidal right neighbour.
CellCost(t, l, i, j) ==
  (t[<<i, j>>] - t[<<(i + 1) % l, j>>]) * (t[<<i, j>>] - t[<<(i + 1) % l, j>>])
  + (t[<<i, j>>] - t[<<i, (j + 1) % l>>]) * (t[<<i, j>>] - t[<<i, (j + 1) % l>>])

RECURSIVE RowCost(_, _, _, _)
RowCost(t, l, i, j) ==
  IF j = l THEN 0 ELSE CellCost(t, l, i, j) + RowCost(t, l, i, j + 1)

RECURSIVE CostFrom(_, _, _)
CostFrom(t, l, i) ==
  IF i = l THEN 0 ELSE RowCost(t, l, i, 0) + CostFrom(t, l, i + 1)

calc_placement_cost(t, l) == CostFrom(t, l, 0)

----------------------------------------------------------------------------
(* The strategy dispatch: main, lines 417-426, and the constructors. *)

\* the dispatch with 169 left out of the third branch
SolverOf_open(s, n) ==
  IF s = 1 THEN "OnePointSolver"
  ELSE IF 1 < s /\ s < 169 THEN "SingularSolver"
  ELSE IF 169 < s /\ s < 289 THEN "SingularSolver2"
  ELSE IF 289 <= s /\ s < 400 /\ n <= GreedyMaxN THEN "SingularSolver2"
  ELSE "AroundSolver"

SolverOf(s, n) ==
  IF s = 1 THEN "OnePointSolver"
  ELSE IF 1 < s /\ s < 169 THEN "SingularSolver"
  ELSE IF 169 <= s /\ s < 289 THEN "SingularSolver2"
  ELSE IF 289 <= s /\ s < 400 /\ n <= GreedyMaxN THEN "SingularSolver2"
  ELSE "AroundSolver"

\* AroundTemperature.__init__, lines 310-318
AroundOfDesigner(s, n) ==
  IF s < 625 THEN (IF s >= 289 /\ n = 100 THEN 5 ELSE 3) ELSE 5

\* AroundSolver.__init__, lines 372-380
AroundOfSolver(s, n) ==
  IF s < 625 THEN (IF s >= 289 /\ n = 100 THEN 5 ELSE 3) ELSE 5

\* The decoding branch each _predict takes: lines 204, 241, 284-302, 406.
DecoderOf(sv, n) ==
  CASE sv = "OnePointSolver" -> "hungarian"
    [] sv = "SingularSolver" -> "greedy"
    [] sv = "SingularSolver2" -> IF n <= GreedyMaxN THEN "hungarian" ELSE "greedy"
    [] OTHER -> "hungarian"

\* AroundSolver._predict, line 392: 10000 // N // Around**2
MeasureCountOf(n, a) == (QueryBudget \div n) \div (a * a)

----------------------------------------------------------------------------
(* OptimizeTemperature.optimize, lines 74-107.  pc walks the function:       *)
(* opt_call (85-90), opt_time (the while of 91), opt_level (the while of 93),*)
(* opt_perturb (the for of 95-98), then the acceptance of 100-105.           *)

\* every cell eligible, prohibit_pos ignored
PermitPos_all(l, proh) == Cells(l)

\* line 88: the cells that are not in prohibit_pos
PermitPos(l, proh) == {c \in Cells(l) : c \notin proh}

\* line 97: the values random.randint(-rand, rand) can return (none when rand < 0:
\* randint raises ValueError)
RandOffsets(r) == (0 - r) .. r

\* lines 97-98: one perturbation of cell c by offset d, clamped
Perturbed(t, c, d) == [t EXCEPT ![c] = Max(0, Min(TempMax, t[c] + d))]

\* line 102: the outcomes of  delta < 0 or random.uniform(0, 1) < math.exp(-delta / T)
\* (uniform(0, 1) < 1 always; exp underflows to 0.0 past ExpUnderflow)
AcceptOutcomes(delta, t) ==
  IF delta <= 0 THEN {TRUE}
  ELSE IF delta * TScale > ExpUnderflow * t THEN {FALSE}
  ELSE {TRUE, FALSE}

\* line 103: what best_temperature becomes when the proposal is accepted
Accepted(best, new) == new

\* line 105: T *= alpha
Cooled(t, sc) == (t * sc.anum) \div sc.aden

\* T_start=100, T_end=0.1, alpha=0.1 of lines 174-176 and 353-355, in tenths
CodeSched == [Tstart |-> 100 * TScale, Tend |-> 1, anum |-> 1, aden |-> 10]

OptEnter ==
  /\ pc = "opt_call"
  /\ in_temperature' = temperature
  /\ best_temperature' = temperature
  /\ best_cost' = calc_placement_cost(temperature, L)
  /\ nprop' = 0
  /\ pc' = IF PermitPos(L, prohibit_pos) = {} THEN "opt_ret" ELSE "opt_time"
  /\ UNCHANGED <<cfgVars, selVars, desVars, decVars, chanVars,
                 caller, rand, sched, new_temperature, T, todo>>

\* line 91: the wall clock decides; either the budget is left and a run starts
\* at T_start, or it is spent and best_temperature is returned (line 107)
OptTimeCheck ==
  /\ pc = "opt_time"
  /\ \/ /\ nprop < MaxProposals
        /\ T' = sched.Tstart
        /\ pc' = "opt_level"
     \/ /\ pc' = "opt_ret"
        /\ T' = T
  /\ UNCHANGED <<cfgVars, selVars, desVars, decVars, chanVars,
                 caller, rand, sched, in_temperature, best_temperature, best_cost,
                 new_temperature, todo, nprop>>

\* line 93-95: while T > T_end: copy best_temperature, draw the number of perturbations
OptLevelCheck ==
  /\ pc = "opt_level"
  /\ \/ /\ T > sched.Tend
        /\ nprop < MaxProposals
        /\ new_temperature' = best_temperature
        /\ \E k \in 1 .. Min(PerturbMax, MaxPerturb) : todo' = k
        /\ nprop' = nprop + 1
        /\ pc' = "opt_perturb"
     \/ /\ ~(T > sched.Tend)
        /\ pc' = "opt_time"
        /\ UNCHANGED <<new_temperature, todo, nprop>>
  /\ UNCHANGED <<cfgVars, selVars, desVars, decVars, chanVars,
                 caller, rand, sched, in_temperature, best_temperature, best_cost, T>>

\* lines 96-98: one perturbation; random.randint(-rand, rand) raises ValueError
\* when rand < 0, which nothing catches
OptPerturb ==
  /\ pc = "opt_perturb"
  /\ todo > 0
  /\ IF RandOffsets(rand) = {}
       THEN /\ pc' = "crashed"
            /\ chan' = [chan EXCEPT !.exit = 1]
            /\ UNCHANGED <<new_temperature, todo>>
       ELSE /\ \E c \in PermitPos(L, prohibit_pos) : \E d \in RandOffsets(rand) :
                 new_temperature' = Perturbed(new_temperature, c, d)
            /\ todo' = todo - 1
            /\ UNCHANGED <<pc, chan>>
  /\ UNCHANGED <<cfgVars, selVars, desVars, decVars, pending,
                 caller, rand, sched, in_temperature, best_temperature, best_cost,
                 T, nprop>>

\* lines 100-105: the Metropolis acceptance and the cooling
OptAccept ==
  /\ pc = "opt_perturb"
  /\ todo = 0
  /\ LET neighbour_cost == calc_placement_cost(new_temperature, L)
         delta == neighbour_cost - best_cost
     IN \E ok \in AcceptOutcomes(delta, T) :
          IF ok
            THEN /\ best_temperature' = Accepted(best_temperature, new_temperature)
                 /\ best_cost' = neighbour_cost
            ELSE UNCHANGED <<best_temperature, best_cost>>
  /\ T' = Cooled(T, sched)
  /\ pc' = "opt_level"
  /\ UNCHANGED <<cfgVars, selVars, desVars, decVars, chanVars,
                 caller, rand, sched, in_temperature, new_temperature, todo, nprop>>

\* lines 90 and 107, and the caller's  self.temperature = self.optimizer.optimize(...)
OptReturn ==
  /\ pc = "opt_ret"
  /\ temperature' = best_temperature
  /\ pc' = CASE caller = "OnePointTemperature" -> "publish"
             [] caller = "AroundTemperature" -> "d_vector"
             [] OTHER -> "opt_done"
  /\ UNCHANGED <<cfgVars, selVars, decVars, chanVars, optVars,
                 prohibit_pos, idx, center_distance, center_temps, avg, num, lo, hi, rp>>

Optimize == OptEnter \/ OptTimeCheck \/ OptLevelCheck \/ OptPerturb \/ OptAccept \/ OptReturn

----------------------------------------------------------------------------
(* main, lines 417-427: the dispatch and the solver's constructor. *)

Main ==
  /\ pc = "main"
  /\ solver' = SolverOf(S, N)
  /\ dAround' = IF SolverOf(S, N) = "AroundSolver" THEN AroundOfDesigner(S, N) ELSE 0
  /\ sAround' = IF SolverOf(S, N) = "AroundSolver" THEN AroundOfSolver(S, N) ELSE 0
  /\ pc' = "run"
  /\ UNCHANGED <<cfgVars, desVars, optVars, decVars, chanVars, decoder, measure_count>>

----------------------------------------------------------------------------
(* Shared by the designers. *)

Cell(pos, off, l) == <<(pos[1] + off[1]) % l, (pos[2] + off[2]) % l>>

\* [(y, x) for y in range(-r, r + 1) for x in range(-r, r + 1)], in that order
BoxSeq(r) ==
  [k \in 1 .. (2 * r + 1) * (2 * r + 1) |->
     <<((k - 1) \div (2 * r + 1)) - r, ((k - 1) % (2 * r + 1)) - r>>]

IsRing(off, r) == Max(Abs(off[1]), Abs(off[2])) = r

\* lines 123-132: around, around2, around3
RingSeq(r) == LET OnRing(off) == IsRing(off, r) IN SelectSeq(BoxSeq(r), OnRing)

\* list.sort / sorted by an integer key in 0..maxKey: ascending and stable
RECURSIVE Buckets(_, _, _, _)
Buckets(n, key, d, maxKey) ==
  IF d > maxKey THEN <<>>
  ELSE LET Has(i) == key[i] = d
       IN SelectSeq([i \in 1 .. n |-> i], Has) \o Buckets(n, key, d + 1, maxKey)

SortedByKey(n, key, maxKey) == Buckets(n, key, 0, maxKey)

\* sum(...) // N of lines 214 and 259: the centroid of the sites
Centroid(sites, n) ==
  <<SeqSum([i \in 1 .. n |-> sites[i][1]]) \div n,
    SeqSum([i \in 1 .. n |-> sites[i][2]]) \div n>>

\* the zero fill of lines 166-169 and 346-349
ZeroFilled(t, v) == [c \in DOMAIN t |-> IF t[c] = 0 THEN v ELSE t[c]]

----------------------------------------------------------------------------
(* OnePointTemperature.run, lines 134-181. *)

\* line 136
AvgOf(n) == (((2 + n * 2) * n) \div 2) \div n

\* line 143: the level of the site of rank i (0-based)
SiteLevel(i) == 2 * (i + 1)

\* line 139: a site's Manhattan distance to the centre (L // 2, L // 2)
CenterDist(pos, l) == Abs(pos[1] - l \div 2) + Abs(pos[2] - l \div 2)

\* lines 139-140: the sites' indices sorted by their distance to the centre
CenterOrder(sites, n, l) ==
  SortedByKey(n, [i \in 1 .. n |-> CenterDist(sites[i], l)], 2 * l)

\* lines 148-153 (and 154-165): one ring around pos blended towards value v
RECURSIVE RingBlend(_, _, _, _, _, _, _)
RingBlend(t, pos, ring, k, v, proh, l) ==
  IF k > Len(ring) THEN t
  ELSE LET c == Cell(pos, ring[k], l)
           t2 == IF t[c] = 0 THEN [t EXCEPT ![c] = v]
                 ELSE IF c \notin proh THEN [t EXCEPT ![c] = (t[c] + v) \div 2]
                 ELSE t
       IN RingBlend(t2, pos, ring, k + 1, v, proh, l)

\* lines 142-165: the body of the loop for the site of rank i
SitePlaced(t, pos, i, n, proh, l) ==
  LET center_avg == 2 * (i + 1)
      a == AvgOf(n)
      t0 == [t EXCEPT ![pos] = SiteLevel(i)]
      t1 == RingBlend(t0, pos, RingSeq(1), 1, (3 * center_avg + a) \div 4, proh, l)
      t2 == RingBlend(t1, pos, RingSeq(2), 1, (center_avg + a) \div 2, proh, l)
  IN RingBlend(t2, pos, RingSeq(3), 1, (center_avg + 3 * a) \div 4, proh, l)

\* line 171
RandOfA(n) == n \div 20 - 2

AStart ==
  /\ pc = "run" /\ solver = "OnePointSolver"
  /\ avg' = AvgOf(N)
  /\ prohibit_pos' = Range(landing_pos)
  /\ center_distance' = CenterOrder(landing_pos, N, L)
  /\ idx' = 0
  /\ pc' = "a_site"
  /\ UNCHANGED <<cfgVars, selVars, optVars, decVars, chanVars,
                 temperature, center_temps, num, lo, hi, rp>>

ASite ==
  /\ pc = "a_site" /\ idx < N
  /\ temperature' = SitePlaced(temperature, landing_pos[center_distance[idx + 1]],
                               idx, N, prohibit_pos, L)
  /\ idx' = idx + 1
  /\ UNCHANGED <<cfgVars, selVars, optVars, decVars, chanVars, pc,
                 prohibit_pos, center_distance, center_temps, avg, num, lo, hi, rp>>

\* lines 166-180: the zero fill, then the call of optimize
AFill ==
  /\ pc = "a_site" /\ idx = N
  /\ temperature' = ZeroFilled(temperature, avg)
  /\ caller' = "OnePointTemperature"
  /\ rand' = RandOfA(N)
  /\ sched' = CodeSched
  /\ pc' = "opt_call"
  /\ UNCHANGED <<cfgVars, selVars, decVars, chanVars,
                 prohibit_pos, idx, center_distance, center_temps, avg, num, lo, hi, rp,
                 in_temperature, best_temperature, best_cost, new_temperature, T, todo,
                 nprop>>

DesignA == AStart \/ ASite \/ AFill

----------------------------------------------------------------------------
(* SingularTemperature.run, lines 212-220, and SingularTemperature2.run,    *)
(* lines 257-265.                                                           *)

\* lines 215, 260, 261
HotLevel(s) == Min(TempMax, 10 * s)

\* line 218: [i_out, [y - pos.y, x - pos.x], [|y - pos.y| + |x - pos.x|]]
DistanceEntry(i, pos, h) ==
  [i_out |-> i, off |-> <<h[1] - pos[1], h[2] - pos[2]>>,
   d |-> Abs(h[1] - pos[1]) + Abs(h[2] - pos[2])]

\* the entries left in site order, the sort dropped
DistanceSorted_unsorted(sites, n, h, l) ==
  [k \in 1 .. n |-> DistanceEntry(k - 1, sites[k], h)]

\* lines 216-219: the entries, sorted by distance (list.sort is stable)
DistanceSorted(sites, n, h, l) ==
  LET order == SortedByKey(n, [i \in 1 .. n |-> DistanceEntry(i - 1, sites[i], h).d], 2 * l)
  IN [k \in 1 .. n |-> DistanceEntry(order[k] - 1, sites[order[k]], h)]

BRun ==
  /\ pc = "run" /\ solver = "SingularSolver"
  /\ LET h == Centroid(landing_pos, N)
     IN /\ temperature' = [temperature EXCEPT ![h] = HotLevel(S)]
        /\ distance' = DistanceSorted(landing_pos, N, h, L)
  /\ pc' = "publish"
  /\ UNCHANGED <<cfgVars, selVars, optVars, chanVars,
                 prohibit_pos, idx, center_distance, center_temps, avg, num, lo, hi, rp,
                 vector, i_in, cur, part, rep, acc, mvec, visited_index, estimate,
                 cost_matrix, round_log>>

\* lines 262-264: per site, the offsets to the two hotspots, in site order
DistancePairs(sites, n, h, l) ==
  [i \in 1 .. n |->
     <<<<h[1] - sites[i][1], h[2] - sites[i][2]>>,
       <<((h[1] + 1) % l) - sites[i][1], h[2] - sites[i][2]>>>>]

CRun ==
  /\ pc = "run" /\ solver = "SingularSolver2"
  /\ LET h == Centroid(landing_pos, N)
     IN /\ temperature' = [temperature EXCEPT ![h] = HotLevel(S),
                                              ![<<(h[1] + 1) % L, h[2]>>] = HotLevel(S)]
        /\ distance' = DistancePairs(landing_pos, N, h, L)
  /\ pc' = "publish"
  /\ UNCHANGED <<cfgVars, selVars, optVars, chanVars,
                 prohibit_pos, idx, center_distance, center_temps, avg, num, lo, hi, rp,
                 vector, i_in, cur, part, rep, acc, mvec, visited_index, estimate,
                 cost_matrix, round_log>>

----------------------------------------------------------------------------
(* AroundTemperature.run, lines 320-365.  random.gauss is drawn from the     *)
(* stream rng, read cyclically from position rp: int(random.gauss(..)) can   *)
(* be any integer, whatever its mean and deviation.                          *)

Draw(stream, k) == stream[(k % Len(stream)) + 1]

\* min(1000, max(0, int(random.gauss(..)))) of lines 323, 340, 342
Gauss(stream, k) == Min(TempMax, Max(0, Draw(stream, k)))

RECURSIVE Insert(_, _)
Insert(s, v) ==
  IF s = <<>> THEN <<v>>
  ELSE IF v < s[1] THEN <<v>> \o s
  ELSE <<s[1]>> \o Insert(Tail(s), v)

RECURSIVE SortedSeq(_)
SortedSeq(s) == IF s = <<>> THEN <<>> ELSE Insert(SortedSeq(Tail(s)), s[1])

\* lines 312, 315, 318 and 374, 377, 380: direction
Direction(a) == BoxSeq((a - 1) \div 2)

\* lines 335-344: the neighbourhood of pos; st is [t, proh, avg, num, rp]
RECURSIVE Seeded(_, _, _, _, _, _)
Seeded(st, pos, dir, k, stream, l) ==
  IF k > Len(dir) THEN st
  ELSE LET c == Cell(pos, dir[k], l)
           v == Gauss(stream, st.rp)
           st2 == IF st.t[c] = 0
                    THEN [t |-> [st.t EXCEPT ![c] = v], proh |-> st.proh \cup {c},
                          avg |-> st.avg + v, num |-> st.num + 1, rp |-> st.rp + 1]
                    ELSE [st EXCEPT !.proh = st.proh \cup {c}]
       IN Seeded(st2, pos, dir, k + 1, stream, l)

\* lines 321-325
DStart ==
  /\ pc = "run" /\ solver = "AroundSolver"
  /\ avg' = 0 /\ num' = 0
  /\ prohibit_pos' = Range(landing_pos)
  /\ center_temps' = SortedSeq([i \in 1 .. N |-> Gauss(rng, rp + i - 1)])
  /\ rp' = rp + N
  /\ lo' = 1 /\ hi' = N
  /\ idx' = 0
  /\ pc' = "d_site"
  /\ UNCHANGED <<cfgVars, selVars, optVars, decVars, chanVars, temperature,
                 center_distance>>

\* lines 327-344: one iteration of the loop over the sorted levels
DSite ==
  /\ pc = "d_site" /\ idx < N
  /\ LET center_temp == center_temps[idx + 1]
         pos == IF idx % 2 = 0 THEN landing_pos[lo] ELSE landing_pos[hi]
         st0 == [t |-> [temperature EXCEPT ![pos] = center_temp], proh |-> prohibit_pos,
                 avg |-> avg + center_temp, num |-> num + 1, rp |-> rp]
         st == Seeded(st0, pos, Direction(dAround), 1, rng, L)
     IN /\ temperature' = st.t
        /\ prohibit_pos' = st.proh
        /\ avg' = st.avg
        /\ num' = st.num
        /\ rp' = st.rp
  /\ lo' = IF idx % 2 = 0 THEN lo + 1 ELSE lo
  /\ hi' = IF idx % 2 = 0 THEN hi ELSE hi - 1
  /\ idx' = idx + 1
  /\ UNCHANGED <<cfgVars, selVars, optVars, decVars, chanVars, pc, center_distance,
                 center_temps>>

\* lines 345-359: the average, the zero fill, then the call of optimize
DFill ==
  /\ pc = "d_site" /\ idx = N
  /\ avg' = avg \div num
  /\ temperature' = ZeroFilled(temperature, avg \div num)
  /\ caller' = "AroundTemperature"
  /\ rand' = 3
  /\ sched' = CodeSched
  /\ pc' = "opt_call"
  /\ UNCHANGED <<cfgVars, selVars, decVars, chanVars,
                 prohibit_pos, idx, center_distance, center_temps, num, lo, hi, rp,
                 in_temperature, best_temperature, best_cost, new_temperature, T, todo,
                 nprop>>

\* lines 361-365: the template vector of every site
VectorOf(t, sites, n, dir, l) ==
  [i \in 1 .. n |-> [k \in 1 .. Len(dir) |-> t[Cell(sites[i], dir[k], l)]]]

DVector ==
  /\ pc = "d_vector"
  /\ vector' = VectorOf(temperature, landing_pos, N, Direction(dAround), L)
  /\ pc' = "publish"
  /\ UNCHANGED <<cfgVars, selVars, desVars, optVars, chanVars,
                 distance, i_in, cur, part, rep, acc, mvec, visited_index, estimate,
                 cost_matrix, round_log>>

DesignD == DStart \/ DSite \/ DFill \/ DVector

Design == DesignA \/ BRun \/ CRun \/ DesignD \/ Optimize

----------------------------------------------------------------------------
(* Judge, lines 17-35.  Every write to standard output and every read of a   *)
(* reply is an event; chan.n counts them.                                    *)

\* set_temperature, lines 18-21: l lines, then the flush
WroteField(ch, l) ==
  [ch EXCEPT !.n = ch.n + 1, !.fields = ch.fields + 1, !.field_at = ch.n + 1,
             !.field_lines = l]

\* measure, line 24: the query line, flushed
WroteQuery(ch) ==
  [ch EXCEPT !.n = ch.n + 1, !.queries = ch.queries + 1, !.last_query_at = ch.n + 1,
             !.first_query_at = IF ch.first_query_at = 0 THEN ch.n + 1
                                ELSE ch.first_query_at]

\* AroundSolver._predict, line 395: a comment line on standard output
WroteComment(ch) == [ch EXCEPT !.n = ch.n + 1, !.comments = ch.comments + 1]

\* measure, line 25: the reply is read
ReadReply(ch) == [ch EXCEPT !.n = ch.n + 1, !.replies = ch.replies + 1]

\* measure, lines 26-28: the reply -1 ends the process with status 1
Failed(ch) ==
  [ch EXCEPT !.n = ch.n + 1, !.replies = ch.replies + 1, !.fail_at = ch.n + 1,
             !.exit = 1]

\* answer, lines 31-35: "-1 -1 -1", one line per entry of estimate, the flush;
\* main then returns
WroteAnswer(ch, k) ==
  [ch EXCEPT !.n = ch.n + 1, !.answers = ch.answers + 1, !.answer_at = ch.n + 1,
             !.answer_lines = k, !.exit = 0]

\* solve, lines 193, 232, 276, 386
Publish ==
  /\ pc = "publish"
  /\ chan' = WroteField(chan, Cardinality({c[1] : c \in DOMAIN temperature}))
  /\ pc' = "predict"
  /\ UNCHANGED <<cfgVars, selVars, desVars, optVars, decVars, pending>>

----------------------------------------------------------------------------
(* The decoders: OnePointSolver._predict (197-205), SingularSolver._predict  *)
(* (236-250), SingularSolver2._predict (280-303), AroundSolver._predict      *)
(* (390-407).  At pc = "dec_next" the loop variables name the next call of   *)
(* judge.measure: i_in the hidden index, cur the position in the inner loop, *)
(* part the first or second hotspot, rep the repetitions done.               *)

\* line 199 and line 392
MeasureCountFor(sv, n, a) ==
  CASE sv = "OnePointSolver" -> 5
    [] sv = "AroundSolver" -> MeasureCountOf(n, a)
    [] OTHER -> 1

\* range(N - 1) of lines 200, 241, 286, 294 and range(N) of line 394
Rounds(sv, n) == IF sv = "AroundSolver" THEN n ELSE n - 1

\* [[0] * N for _ in range(N)], lines 198, 282, 391
ZeroMatrix(n, wide) == [i \in 1 .. n |-> [j \in 1 .. n |-> IF wide THEN <<0, 0, 0>> ELSE 0]]

\* the candidates in the order the greedy loop visits them: lines 242 and 295
Candidates(sv, dist, n) ==
  IF sv = "SingularSolver" THEN [k \in 1 .. n |-> dist[k].i_out]
  ELSE [k \in 1 .. n |-> k - 1]

\* lines 243-244 and 296-297: skip the claimed candidates; a round that runs
\* out of candidates ends without a claim
RECURSIVE GreedySkip(_, _, _, _, _)
GreedySkip(i, c, claimed, cands, n) ==
  IF i >= n - 1 THEN <<i, 1>>
  ELSE IF c > n THEN GreedySkip(i + 1, 1, claimed, cands, n)
  ELSE IF cands[c] \in claimed THEN GreedySkip(i, c + 1, claimed, cands, n)
  ELSE <<i, c>>

\* line 238
ThresholdB(s) == Min(999, 5 * s)

\* line 245:  measure > threshold
AboveB(v, s) == v > ThresholdB(s)

\* lines 292 and 298:  m1 + m2 > 5.3 * S
AboveC(m, s) == 10 * m > 53 * s

PredictEntry ==
  /\ pc = "predict"
  /\ decoder' = DecoderOf(solver, N)
  /\ measure_count' = MeasureCountFor(solver, N, sAround)
  /\ cost_matrix' = IF DecoderOf(solver, N) = "hungarian"
                      THEN ZeroMatrix(N, solver = "AroundSolver") ELSE <<>>
  /\ estimate' = IF solver \in {"SingularSolver", "SingularSolver2"}
                   THEN [i \in 1 .. N |-> 0] ELSE <<>>
  /\ visited_index' = <<>>
  /\ i_in' = 0 /\ cur' = 1 /\ part' = 0 /\ rep' = 0 /\ acc' = 0 /\ mvec' = <<>>
  /\ round_log' = <<>>
  /\ pc' = IF solver = "AroundSolver" /\ MeasureCountFor(solver, N, sAround) = 0
             THEN "crashed" ELSE "dec_next"
  /\ chan' = IF solver = "AroundSolver" /\ MeasureCountFor(solver, N, sAround) = 0
               THEN [chan EXCEPT !.exit = 1] ELSE chan
  /\ UNCHANGED <<cfgVars, desVars, optVars, solver, dAround, sAround, distance, vector,
                 pending>>

\* the offsets of the next call of judge.measure
QueryOffset ==
  CASE solver = "OnePointSolver" -> <<0, 0>>
    [] solver = "SingularSolver" -> distance[cur].off
    [] solver = "SingularSolver2" -> distance[cur][part + 1]
    [] OTHER -> Direction(sAround)[cur]

\* judge.measure, line 24 (for AroundSolver the comment of line 395 first, at
\* the start of each hidden index)
Query ==
  /\ pc = "dec_next"
  /\ i_in < Rounds(solver, N)
  /\ pending' = <<i_in, QueryOffset[1], QueryOffset[2]>>
  /\ chan' = IF solver = "AroundSolver" /\ cur = 1 /\ rep = 0
               THEN WroteQuery(WroteComment(chan)) ELSE WroteQuery(chan)
  /\ round_log' = IF decoder = "greedy" /\ part = 0
                    THEN Append(round_log, Candidates(solver, distance, N)[cur])
                    ELSE round_log
  /\ pc' = "dec_wait"
  /\ UNCHANGED <<cfgVars, selVars, desVars, optVars, distance, vector, i_in, cur, part,
                 rep, acc, mvec, visited_index, estimate, cost_matrix>>

\* the readings the "free" judge chooses from
FreeReadings == {0, 1000}

\* what the judge may reply to the pending query: the cell's value ("exact") or
\* any reading ("free"), or the failure sentinel
TrueReading(q) == temperature[Cell(landing_pos[truth[q[1] + 1] + 1], <<q[2], q[3]>>, L)]

Replies(q) ==
  (IF judge = "exact" THEN {TrueReading(q)} ELSE FreeReadings) \cup {-1}

\* lines 201-203: the reading joins the sum; after measure_count readings the
\* row of the cost matrix is |temperature - mean|, held times measure_count
ConsumeA(v) ==
  /\ IF rep + 1 = measure_count
       THEN /\ cost_matrix' =
                 [cost_matrix EXCEPT ![i_in + 1] =
                    [j \in 1 .. N |-> Abs(measure_count * temperature[landing_pos[j]]
                                          - (acc + v))]]
            /\ i_in' = i_in + 1 /\ rep' = 0 /\ acc' = 0
       ELSE /\ rep' = rep + 1 /\ acc' = acc + v
            /\ UNCHANGED <<cost_matrix, i_in>>
  /\ UNCHANGED <<cur, part, mvec, visited_index, estimate, round_log>>

\* lines 245-248: claim the candidate when the reading is above the threshold
ConsumeB(v) ==
  LET cands == Candidates(solver, distance, N)
      claimedNow == Range(visited_index) \cup {cands[cur]}
      nxt == IF AboveB(v, S)
               THEN GreedySkip(i_in + 1, 1, claimedNow, cands, N)
               ELSE GreedySkip(i_in, cur + 1, Range(visited_index), cands, N)
  IN /\ IF AboveB(v, S)
          THEN /\ visited_index' = Append(visited_index, cands[cur])
               /\ estimate' = [estimate EXCEPT ![i_in + 1] = cands[cur]]
          ELSE UNCHANGED <<visited_index, estimate>>
     /\ i_in' = nxt[1] /\ cur' = nxt[2]
     /\ round_log' = IF nxt[1] = i_in THEN round_log ELSE <<>>
     /\ UNCHANGED <<part, rep, acc, mvec, cost_matrix>>

\* line 288: the two readings of a candidate are added to its entry
ConsumeCFull(v) ==
  /\ IF part = 0
       THEN /\ acc' = v /\ part' = 1
            /\ UNCHANGED <<cost_matrix, i_in, cur>>
       ELSE /\ cost_matrix' = [cost_matrix EXCEPT ![i_in + 1][cur] = @ + acc + v]
            /\ acc' = 0 /\ part' = 0
            /\ i_in' = IF cur = N THEN i_in + 1 ELSE i_in
            /\ cur' = IF cur = N THEN 1 ELSE cur + 1
  /\ UNCHANGED <<rep, mvec, visited_index, estimate, round_log>>

\* lines 298-301: claim the candidate when the two readings sum above the threshold
ConsumeCGreedy(v) ==
  IF part = 0
    THEN /\ acc' = v /\ part' = 1
         /\ UNCHANGED <<i_in, cur, rep, mvec, visited_index, estimate, cost_matrix,
                        round_log>>
    ELSE LET cands == Candidates(solver, distance, N)
             claimedNow == Range(visited_index) \cup {cands[cur]}
             nxt == IF AboveC(acc + v, S)
                      THEN GreedySkip(i_in + 1, 1, claimedNow, cands, N)
                      ELSE GreedySkip(i_in, cur + 1, Range(visited_index), cands, N)
         IN /\ IF AboveC(acc + v, S)
                 THEN /\ visited_index' = Append(visited_index, cands[cur])
                      /\ estimate' = [estimate EXCEPT ![i_in + 1] = cands[cur]]
                 ELSE UNCHANGED <<visited_index, estimate>>
            /\ i_in' = nxt[1] /\ cur' = nxt[2]
            /\ round_log' = IF nxt[1] = i_in THEN round_log ELSE <<>>
            /\ acc' = 0 /\ part' = 0
            /\ UNCHANGED <<rep, mvec, cost_matrix>>

\* A cost of AroundSolver is the rational a + b / mc + c / mc^2, held as
\* <<a, b, c>>: the mean reading is sums[k] / measure_count (line 399).
Add3(x, y) == <<x[1] + y[1], x[2] + y[2], x[3] + y[3]>>

RECURSIVE Sum3(_)
Sum3(s) == IF s = <<>> THEN <<0, 0, 0>> ELSE Add3(s[1], Sum3(Tail(s)))

\* <<a, b, c>> with 0 <= b, c < mc: equal rationals have equal normal forms
Norm3(x, mc) ==
  LET b1 == x[2] + x[3] \div mc
  IN <<x[1] + b1 \div mc, b1 % mc, x[3] % mc>>

Leq3(x, y, mc) ==
  LET a == Norm3(x, mc)
      b == Norm3(y, mc)
  IN \/ a[1] < b[1]
     \/ a[1] = b[1] /\ a[2] < b[2]
     \/ a[1] = b[1] /\ a[2] = b[2] /\ a[3] <= b[3]

\* line 404: (vector[i_out][i] - measure_vector[i]) ** 2
SqDiff(v, sum, mc) ==
  LET d == v - sum \div mc
      r == sum % mc
  IN <<d * d, 0 - 2 * d * r, r * r>>

\* lines 402-405: the cost of candidate j, the squared distance between its
\* template and the mean readings
TemplateCost(vec, sums, mc) ==
  Sum3([k \in 1 .. Len(sums) |-> SqDiff(vec[k], sums[k], mc)])

\* lines 397-405
ConsumeD(v) ==
  /\ IF rep + 1 < measure_count
       THEN /\ rep' = rep + 1 /\ acc' = acc + v
            /\ UNCHANGED <<mvec, cur, i_in, cost_matrix>>
       ELSE /\ rep' = 0 /\ acc' = 0
            /\ IF cur < Len(Direction(sAround))
                 THEN /\ mvec' = Append(mvec, acc + v)
                      /\ cur' = cur + 1
                      /\ UNCHANGED <<i_in, cost_matrix>>
                 ELSE /\ cost_matrix' =
                           [cost_matrix EXCEPT ![i_in + 1] =
                              [j \in 1 .. N |->
                                 TemplateCost(vector[j], Append(mvec, acc + v),
                                              measure_count)]]
                      /\ mvec' = <<>> /\ cur' = 1 /\ i_in' = i_in + 1
  /\ UNCHANGED <<part, visited_index, estimate, round_log>>

\* the failure recorded, the decoder going on to its next query
OnFailure_goes_on(ch) == [pc |-> "dec_next", chan |-> Failed(ch)]

\* measure, lines 26-28: sys.exit(1), the process ends
OnFailure(ch) == [pc |-> "exited", chan |-> Failed(ch)]

\* judge.measure, lines 25-29, and what the decoder does with the reading
Reply ==
  /\ pc = "dec_wait"
  /\ \E v \in Replies(pending) :
       IF v = -1
         THEN /\ pc' = OnFailure(chan).pc
              /\ chan' = OnFailure(chan).chan
              /\ pending' = <<>>
              /\ UNCHANGED decVars
         ELSE /\ pc' = "dec_next"
              /\ chan' = ReadReply(chan)
              /\ pending' = <<>>
              /\ UNCHANGED <<distance, vector>>
              /\ CASE solver = "OnePointSolver" -> ConsumeA(v)
                   [] solver = "SingularSolver" -> ConsumeB(v)
                   [] solver = "SingularSolver2" /\ decoder = "hungarian" -> ConsumeCFull(v)
                   [] solver = "SingularSolver2" /\ decoder = "greedy" -> ConsumeCGreedy(v)
                   [] OTHER -> ConsumeD(v)
  /\ UNCHANGED <<cfgVars, selVars, desVars, optVars>>

\* the total cost of assignment p
Total(m, p, n, wide) ==
  Sum3([i \in 1 .. n |-> IF wide THEN m[i][p[i] + 1] ELSE <<m[i][p[i] + 1], 0, 0>>])

\* _hungarian_method, lines 63-66: scipy's linear_sum_assignment returns the
\* columns of an assignment of minimum (maximize: maximum) total cost
HungarianResults(m, n, maximize, wide, mc) ==
  LET PermsN == {p \in [1 .. n -> 0 .. n - 1] : \A i, j \in 1 .. n : i # j => p[i] # p[j]}
  IN {p \in PermsN :
        \A q \in PermsN :
          IF maximize THEN Leq3(Total(m, q, n, wide), Total(m, p, n, wide), mc)
          ELSE Leq3(Total(m, p, n, wide), Total(m, q, n, wide), mc)}

\* lines 249 and 302: the last entry is the first candidate nobody claimed
ForcedLast(est, claimed, n) ==
  [est EXCEPT ![n] = CHOOSE i \in 0 .. n - 1 :
                       /\ i \notin Range(claimed)
                       /\ \A j \in 0 .. i - 1 : j \in Range(claimed)]

\* the end of _predict: lines 204-205, 249-250, 289 and 302-303, 406-407
Finish ==
  /\ pc = "dec_next"
  /\ i_in >= Rounds(solver, N)
  /\ IF decoder = "hungarian"
       THEN estimate' \in HungarianResults(cost_matrix, N, solver = "SingularSolver2",
                                           solver = "AroundSolver", measure_count)
       ELSE estimate' = ForcedLast(estimate, visited_index, N)
  /\ pc' = "answer"
  /\ UNCHANGED <<cfgVars, selVars, desVars, optVars, chanVars,
                 distance, vector, i_in, cur, part, rep, acc, mvec, visited_index,
                 cost_matrix, round_log>>

\* solve, lines 195, 234, 278, 388: judge.answer(estimate)
Answer ==
  /\ pc = "answer"
  /\ chan' = WroteAnswer(chan, Len(estimate))
  /\ pc' = "done"
  /\ UNCHANGED <<cfgVars, selVars, desVars, optVars, decVars, pending>>

Decode == Publish \/ PredictEntry \/ Query \/ Reply \/ Finish \/ Answer

----------------------------------------------------------------------------
(* Initial values of the parts of the state a specification does not draw. *)

NoField == <<>>

SelInit ==
  /\ solver = "" /\ dAround = 0 /\ sAround = 0 /\ decoder = "" /\ measure_count = 0

\* BaseTemperature.__init__, line 46: the all-zero field
DesInit ==
  /\ temperature = ConstField(L, 0) /\ prohibit_pos = {} /\ idx = 0
  /\ center_distance = <<>>
  /\ center_temps = <<>> /\ avg = 0 /\ num = 0 /\ lo = 0 /\ hi = 0 /\ rp = 0

OptInit ==
  /\ caller = "" /\ rand = 0 /\ sched = CodeSched
  /\ in_temperature = NoField /\ best_temperature = NoField /\ best_cost = 0
  /\ new_temperature = NoField /\ T = 0 /\ todo = 0 /\ nprop = 0

DecInit ==
  /\ distance = <<>> /\ vector = <<>> /\ i_in = 0 /\ cur = 0 /\ part = 0 /\ rep = 0
  /\ acc = 0 /\ mvec = <<>> /\ visited_index = <<>> /\ estimate = <<>>
  /\ cost_matrix = <<>> /\ round_log = <<>>

\* The channel: n counts the events (writes and reads) so far; the *_at fields
\* hold the event number of the write or read they record (0: not yet).
ChanInit ==
  /\ pending = <<>>
  /\ chan = [n |-> 0, fields |-> 0, field_at |-> 0, field_lines |-> 0,
             queries |-> 0, first_query_at |-> 0, last_query_at |-> 0, replies |-> 0,
             fail_at |-> 0, comments |-> 0, answers |-> 0, answer_at |-> 0,
             answer_lines |-> 0, exit |-> -1]

----------------------------------------------------------------------------
(* SpecOpt: optimize on its own, its arguments drawn from bounded sets. *)

OptSide == {2}
OptBases == {0, 1000}
OptDeltas == {0, 1}
OptRands == {-1, 0, 1}
OptScheds == {CodeSched, [Tstart |-> 1 * TScale, Tend |-> 1, anum |-> 1, aden |-> 10]}

OptFields(l) ==
  {[ConstField(l, b) EXCEPT ![<<0, 0>>] = Clamp(b + d), ![<<1, 1>>] = Clamp(b - d)] :
     b \in OptBases, d \in OptDeltas}

OptProhibits(l) ==
  {{}, {<<0, 0>>}, Cells(l) \ {<<0, 0>>}, Cells(l)}

InitOpt ==
  /\ L \in OptSide /\ N = 0 /\ S = 0 /\ landing_pos = <<>>
  /\ truth = <<>> /\ judge = "" /\ rng = <<>>
  /\ SelInit /\ DecInit /\ ChanInit
  /\ temperature \in OptFields(L)
  /\ prohibit_pos \in OptProhibits(L)
  /\ idx = 0 /\ center_distance = <<>>
  /\ center_temps = <<>> /\ avg = 0 /\ num = 0 /\ lo = 0 /\ hi = 0 /\ rp = 0
  /\ caller = "" /\ rand \in OptRands /\ sched \in OptScheds
  /\ in_temperature = NoField /\ best_temperature = NoField /\ best_cost = 0
  /\ new_temperature = NoField /\ T = 0 /\ todo = 0 /\ nprop = 0
  /\ pc = "opt_call"

SpecOpt == InitOpt /\ [][Optimize]_vars

----------------------------------------------------------------------------
(* The episodes' inputs. *)

Perms(n) == {p \in [1 .. n -> 0 .. n - 1] : \A i, j \in 1 .. n : i # j => p[i] # p[j]}
Identity(n) == [i \in 1 .. n |-> i - 1]

PoolCells == <<<<0, 0>>, <<1, 0>>, <<2, 2>>, <<1, 1>>, <<0, 2>>, <<2, 1>>>>
SitePool == {PoolCells[k] : k \in 1 .. Min(MaxN, Len(PoolCells))}

\* the sequences of n pairwise distinct sites of the pool
SiteSeqs(n) == {q \in [1 .. n -> SitePool] : \A i, j \in 1 .. n : i # j => q[i] # q[j]}

\* the first n cells of a grid of side l, row by row
RowMajor(n, l) == [i \in 1 .. n |-> <<(i - 1) \div l, (i - 1) % l>>]

GaussStreams == {<<500>>, <<-50, 1200, 0, 700>>}

Config(l, n, s, sites, tr, j, g) ==
  [L |-> l, N |-> n, S |-> s, sites |-> sites, truth |-> tr, judge |-> j, rng |-> g]

SmallConfigs(ss, maxn) ==
  {Config(SmallL, n, s, q, tr, "exact", <<0>>) :
     <<n, q, tr>> \in UNION {{n} \X SiteSeqs(n) \X Perms(n) : n \in 1 .. maxn}, s \in ss}
  \cup
  {Config(SmallL, n, s, q, Identity(n), "free", <<0>>) :
     <<n, q>> \in UNION {{n} \X SiteSeqs(n) : n \in 1 .. maxn}, s \in ss}

\* two sites whose 3x3 neighbourhoods leave two cells of a 4x4 grid free, and
\* one site whose 5x5 neighbourhood covers the grid
AroundConfigs ==
  {Config(4, 2, 400, <<<<0, 0>>, <<2, 2>>>>, tr, "exact", g) :
     tr \in Perms(2), g \in GaussStreams}
  \cup {Config(4, 1, 625, <<<<1, 1>>>>, Identity(1), "exact", g) : g \in GaussStreams}

\* more than GreedyMaxN sites: the greedy branch of SingularSolver2._predict
GreedyConfigs ==
  LET n == GreedyMaxN + 1
      m == FullL * FullL
  IN {Config(GreedyL, n, 169, RowMajor(n, GreedyL), tr, "exact", <<0>>) :
        tr \in {Identity(n), [i \in 1 .. n |-> (i - 1 + GreedyL) % n]}}
     \cup {Config(FullL, m, 196, RowMajor(m, FullL), [i \in 1 .. m |-> m - i], "exact", <<0>>)}

\* the single-feature design on a grid with one cell that is not a site
CrowdedConfigs ==
  LET n == BigL * BigL - 1
  IN {Config(BigL, n, 1, RowMajor(n, BigL), Identity(n), "exact", <<0>>)}

\* the scenario L=10, N=3, S=1 with sites (2,2), (7,7), (5,1)
ScenarioConfigs ==
  {Config(10, 3, 1, <<<<2, 2>>, <<7, 7>>, <<5, 1>>>>, Identity(3), "exact", <<0>>)}

InitWith(cfgs) ==
  /\ \E c \in cfgs :
       /\ L = c.L /\ N = c.N /\ S = c.S /\ landing_pos = c.sites
       /\ truth = c.truth /\ judge = c.judge /\ rng = c.rng
  /\ SelInit /\ DesInit /\ OptInit /\ DecInit /\ ChanInit
  /\ pc = "main"

----------------------------------------------------------------------------
(* SpecSelect: main's dispatch for every S and N of the contest's ranges. *)

SelectConfigs ==
  {Config(FullL, n, s, RowMajor(n, FullL), Identity(n), "exact", <<0>>) :
     n \in 1 .. MaxNSel, s \in 1 .. MaxS}

InitSelect == InitWith(SelectConfigs)

SpecSelect == InitSelect /\ [][Main]_vars

----------------------------------------------------------------------------
(* SpecDesign: main's dispatch and the designer's run, up to the field it    *)
(* returns.                                                                  *)

DesignConfigs ==
  SmallConfigs({1, 2, 169}, MaxNFull) \cup AroundConfigs \cup CrowdedConfigs
  \cup ScenarioConfigs

InitDesign == InitWith({c \in DesignConfigs : c.judge = "exact" /\ c.truth = Identity(c.N)})

NextDesign == Main \/ Design

SpecDesign == InitDesign /\ [][NextDesign]_vars

----------------------------------------------------------------------------
(* Spec: whole episodes, from main to the answer or the exit. *)

EpisodeConfigs ==
  SmallConfigs({1, 2}, MaxN) \cup SmallConfigs({169}, MaxNFull)
  \cup AroundConfigs \cup GreedyConfigs \cup ScenarioConfigs

Init == InitWith(EpisodeConfigs)

Next == Main \/ Design \/ Decode

Spec == Init /\ [][Next]_vars

----------------------------------------------------------------------------
(* The properties.                                                           *)

\* the estimate maps the hidden indices one-to-one onto the sites 0 .. N-1
IsBijection(est, n) ==
  /\ Len(est) = n
  /\ \A j \in 0 .. n - 1 : Cardinality({i \in 1 .. n : est[i] = j}) = 1

\* C1: on every decoding path and for every sequence of readings the returned
\* estimate has N entries and every site index appears in it exactly once.
C1_EstimateIsBijection ==
  pc \in {"answer", "done"} => IsBijection(estimate, N)

\* C2: the field optimize returns costs no more than the field it was given,
\* whatever the schedule, the perturbations and the acceptances were.
C2_ReturnedCostNotWorse ==
  (pc = "opt_done" /\ PermitPos(L, prohibit_pos) # {})
    => calc_placement_cost(temperature, L) <= calc_placement_cost(in_temperature, L)

\* the rank of site i (0-based) in the order of Manhattan distance to the centre
RankOf(i) ==
  Cardinality({j \in 1 .. N :
                 \/ CenterDist(landing_pos[j], L) < CenterDist(landing_pos[i + 1], L)
                 \/ /\ CenterDist(landing_pos[j], L) = CenterDist(landing_pos[i + 1], L)
                    /\ j < i + 1})

\* C3: for S = 1 OnePointTemperature.run completes, the field it returns holds
\* 2*(r+1) at the site of distance rank r, and with noise-free readings
\* OnePointSolver._predict returns the true mapping.
C3_OnePointCompletes ==
  solver = "OnePointSolver" =>
    /\ pc # "crashed"
    /\ pc \in {"publish", "predict", "dec_next", "dec_wait", "answer", "done"}
         => \A i \in 0 .. N - 1 : temperature[landing_pos[i + 1]] = 2 * (RankOf(i) + 1)
    /\ (pc \in {"answer", "done"} /\ judge = "exact") => estimate = truth

\* C4: the strategy is the decision table's function of (S, N): the variant,
\* the decoder, the neighbourhood side of Variant D (the same in designer and
\* decoder) and the repeat count floor(floor(10000/N)/area).
C4_DecisionTable ==
  pc = "run" =>
    LET variant == IF S = 1 THEN "OnePointSolver"
                   ELSE IF 1 < S /\ S < 169 THEN "SingularSolver"
                   ELSE IF (169 <= S /\ S < 289) \/ (289 <= S /\ S < 400 /\ N <= 71)
                     THEN "SingularSolver2"
                   ELSE "AroundSolver"
        dec == IF variant = "SingularSolver" THEN "greedy"
               ELSE IF variant = "SingularSolver2" /\ N > 71 THEN "greedy"
               ELSE "hungarian"
        side == IF S >= 625 \/ (S >= 289 /\ N = 100) THEN 5 ELSE 3
    IN /\ solver = variant
       /\ DecoderOf(solver, N) = dec
       /\ variant = "AroundSolver" =>
            /\ dAround = side /\ sAround = side
            /\ MeasureCountFor(solver, N, sAround) = (10000 \div N) \div (side * side)
       /\ (N = 100 /\ S = 900) =>
            /\ solver = "AroundSolver" /\ DecoderOf(solver, N) = "hungarian"
            /\ dAround = 5 /\ sAround = 5
            /\ MeasureCountFor(solver, N, sAround) = 4

C4_Witness ==
  /\ pc = "run" /\ N = 100 /\ S = 900
  /\ solver = "AroundSolver" /\ sAround = 5 /\ MeasureCountFor(solver, N, sAround) = 4

InRange(t) == \A c \in DOMAIN t : t[c] \in 0 .. 1000

\* C5: every cell of the field is in [0,1000] after each designer, after every
\* perturbation and after every return of optimize, so the published field is.
C5_FieldInRange ==
  /\ pc \in {"publish", "d_vector", "opt_done"} => InRange(temperature)
  /\ (pc \notin {"main", "run", "opt_call"} /\ InRange(in_temperature)) =>
       /\ InRange(best_temperature)
       /\ InRange(new_temperature)

\* C6: optimize leaves every cell of prohibit_pos as it was in the input field,
\* and when prohibit_pos covers every cell it returns the input field and
\* attempts no perturbation.
C6_ProhibitedUnchanged ==
  pc \in {"opt_time", "opt_level", "opt_perturb", "opt_ret", "opt_done"} =>
    /\ \A c \in prohibit_pos \cap Cells(L) :
         /\ best_temperature[c] = in_temperature[c]
         /\ new_temperature # NoField => new_temperature[c] = in_temperature[c]
         /\ pc = "opt_done" => temperature[c] = in_temperature[c]
    /\ Cells(L) \subseteq prohibit_pos =>
         /\ best_temperature = in_temperature
         /\ new_temperature = NoField /\ nprop = 0
         /\ pc \in {"opt_ret", "opt_done"}
         /\ pc = "opt_done" => temperature = in_temperature

C6_Witness ==
  /\ pc = "opt_done" /\ prohibit_pos # {} /\ nprop > 0
  /\ temperature # in_temperature

\* C7: the field is written before the first query, each query is followed by
\* its one reply before anything else is written, the answer block of N lines
\* is written at most once and after the last query, and a reply of -1 ends
\* the process with a non-zero status: no further query, no retry, no answer.
C7_ChannelOrder ==
  /\ chan.fields <= 1
  /\ chan.first_query_at > 0 =>
       /\ chan.fields = 1 /\ chan.field_lines = L
       /\ 0 < chan.field_at /\ chan.field_at < chan.first_query_at
  /\ chan.replies <= chan.queries /\ chan.queries <= chan.replies + 1
  /\ chan.queries = chan.replies + 1 => (pc = "dec_wait" /\ chan.n = chan.last_query_at)
  /\ pc = "dec_wait" => chan.queries = chan.replies + 1
  /\ chan.answers <= 1
  /\ chan.answers = 1 =>
       /\ chan.answer_at = chan.n /\ chan.answer_at > chan.last_query_at
       /\ chan.answer_at > chan.field_at /\ chan.fields = 1
       /\ chan.queries = chan.replies
       /\ chan.answer_lines = N
       /\ chan.fail_at = 0 /\ chan.exit = 0
  /\ chan.fail_at > 0 =>
       /\ chan.fail_at = chan.n /\ chan.fail_at = chan.last_query_at + 1
       /\ chan.exit = 1 /\ pc = "exited"
       /\ chan.answers = 0

C7_Witness ==
  /\ pc = "exited" /\ chan.fail_at > 0
  /\ chan.queries >= 2 /\ chan.replies = chan.queries

\* the Manhattan distance of candidate u to the hotspot (Variant B), to the two
\* hotspots added (Variant C)
HotspotDistance(u) ==
  LET h1 == Centroid(landing_pos, N)
      h2 == <<(h1[1] + 1) % L, h1[2]>>
      To(h) == Abs(h[1] - landing_pos[u + 1][1]) + Abs(h[2] - landing_pos[u + 1][2])
  IN IF solver = "SingularSolver" THEN To(h1) ELSE To(h1) + To(h2)

\* the candidates of the current round that are neither claimed nor queried yet
Waiting == {u \in 0 .. N - 1 : u \notin Range(visited_index) /\ u \notin Range(round_log)}

\* the candidate the pending query is about
Queried == round_log[Len(round_log)]

\* the pending query is aimed from the queried candidate at a hotspot, and the
\* candidate is neither claimed nor queried before in this round
QueryWellAimed ==
  /\ Queried \notin Range(visited_index)
  /\ \A k \in 1 .. Len(round_log) - 1 : round_log[k] # Queried
  /\ temperature[Cell(landing_pos[Queried + 1], <<pending[2], pending[3]>>, L)] > 0

\* C8 as stated: in both greedy decoders a candidate is never queried before an
\* unclaimed candidate strictly closer to the hotspot(s), and a claimed
\* candidate is never queried again.
C8_AscendingDistance ==
  (decoder = "greedy" /\ pc = "dec_wait") =>
    /\ QueryWellAimed
    /\ \A u \in Waiting : HotspotDistance(u) >= HotspotDistance(Queried)

\* C8: in SingularSolver._predict the unclaimed candidates of a round are
\* queried in ascending order of their distance to the hotspot; in the N > 71
\* branch of SingularSolver2._predict they are queried in ascending order of
\* their index; in both a claimed candidate is never queried again.
C8_GreedyOrder ==
  (decoder = "greedy" /\ pc = "dec_wait") =>
    /\ QueryWellAimed
    /\ solver = "SingularSolver" =>
         \A u \in Waiting : HotspotDistance(u) >= HotspotDistance(Queried)
    /\ solver = "SingularSolver2" => \A u \in Waiting : u > Queried

C8_Witness ==
  /\ decoder = "greedy" /\ pc = "dec_wait" /\ solver = "SingularSolver2"
  /\ Len(visited_index) >= 1 /\ Len(round_log) >= 2
  /\ \E u \in Waiting : HotspotDistance(u) < HotspotDistance(Queried)

\* C9: with noise-free readings and pairwise distinct sites the greedy
\* decoders claim for every hidden index its true site, so the returned
\* assignment is the true mapping.
C9_NoiseFreeGreedy ==
  (judge = "exact" /\ decoder = "greedy") =>
    /\ \A i \in 1 .. N : i <= i_in => estimate[i] = truth[i]
    /\ pc \in {"answer", "done"} => estimate = truth

\* C10: at most 10000 measurement queries are issued in one episode, on every
\* path.
C10_QueryBudget == chan.queries <= 10000

====
